---- MODULE Spec2Model ----
(***************************************************************************)
(* Topic lifecycle and run orchestration of the kids educational content   *)
(* automation: the Topic Store (db_manager.py), the Topic Supplier         *)
(* (topic_manager.py), the publish retry loop (youtube_publisher.py) and   *)
(* the Run Orchestrator (main.py).                                         *)
(*                                                                         *)
(* Optional values (Python None, SQL NULL) are sequences: <<>> is None and *)
(* <<x>> is the value x.                                                   *)
(***************************************************************************)
EXTENDS Integers, Sequences, FiniteSets, TLC

(***************************************************************************)
(* Bounds of the model.                                                    *)
(***************************************************************************)
\* number of distinct candidate keys the direct Topic Store calls draw from
MaxStoreKeys == 4
\* longest candidate list handed to add_topics by a direct Topic Store call
MaxCandLen == 2
\* number of topics in the full answer of the topic-generation backend to one request
BlockLen == 3
\* number of runs of create_and_upload_video
MaxRuns == 3
\* number of failures (a collaborator that fails, a store call that raises) in a behaviour
MaxTroubles == 2
\* largest total_count of a direct call of generate_topics_batch
MaxTotalCount == 4
\* largest batch_size of a direct call of generate_topics_batch
MaxBatchSize == 2

(***************************************************************************)
(* Program constants.                                                      *)
(***************************************************************************)
\* self.min_topics_threshold
MinTopicsThreshold == 10
\* self.topic_batch_size
TopicBatchSize == 200
\* batch_size passed to generate_topics_batch
GenBatchSize == 50
\* max_retries passed to upload_video_with_retry
MaxRetries == 5

(***************************************************************************)
(* Values.                                                                 *)
(***************************************************************************)
Null == <<>>
Some(x) == <<x>>

Min(a, b) == IF a <= b THEN a ELSE b
Range(s) == {s[i] : i \in DOMAIN s}

\* topic fields delivered by the topic-generation backend (strings)
Categories == <<"Math Basics", "Good Manners">>
MainTopics == <<"Counting", "Politeness">>
Subtopics == <<"One", "Two", "Three">>

\* number of distinct (category, main_topic, subtopic) triples over the fields above
NumCands == Len(Categories) * Len(MainTopics) * Len(Subtopics)

\* the i-th candidate dictionary {category, main_topic, subtopic}; i wraps at NumCands
Cand(i) ==
    LET k == (i - 1) % NumCands IN
    [category   |-> Categories[(k \div (Len(MainTopics) * Len(Subtopics))) + 1],
     main_topic |-> MainTopics[((k \div Len(Subtopics)) % Len(MainTopics)) + 1],
     subtopic   |-> Subtopics[(k % Len(Subtopics)) + 1]]

(***************************************************************************)
(* State.                                                                  *)
(***************************************************************************)
VARIABLES
    topics,          \* table topics: rows [id, category, main_topic, subtopic, status, used_at]
    topic_seq,       \* AUTOINCREMENT counter of table topics (largest id ever given)
    upload_history,  \* table upload_history: sequence of rows, in insertion order
    logs,            \* table logs: sequence of rows [level, message], in insertion order
    pc,              \* position of the orchestrator: "idle" between runs, else the stage
    runs,            \* number of runs of create_and_upload_video started so far
    topic_data,      \* local topic_data of the run: <<>> or <<topic>>
    video_id,        \* local video_id of the run: <<>> or <<published id>>
    attempt,         \* upload attempts that failed in the call of upload_video_with_retry
    result,          \* the last run: "running", "True", "False", "raised" or "interrupted"
    failure,         \* <<>> or <<[stage, cause]>>: where and why the run left the success path
    collab_calls,    \* collaborators invoked by the run, in order of their first call
    ensure_branch,   \* branch ensure_topics_available took in the run
    after_ensure,    \* topics and upload_history as the ensure step of the run left them
    troubles,        \* failures of collaborators and store calls so far (at most MaxTroubles)
    successes,       \* number of runs that returned True
    add_result,      \* direct calls: <<>>, or <<what the last call, an add_topics, did>>
    files,           \* kinds of artifacts in the output directory: "slides", "audio", "video"
    loop,            \* run_continuous: "off", "looping", "stopped" or "crashed"
    exit_status,     \* run-once mode: <<>>, or <<exit code of the process>>
    batch            \* <<>>, or <<the call of generate_topics_batch in progress>>

dbvars == <<topics, topic_seq, upload_history, logs>>
runvars == <<pc, runs, topic_data, video_id, attempt, result, failure, collab_calls,
             ensure_branch, after_ensure, troubles, successes, files, loop, exit_status,
             batch>>
vars == <<topics, topic_seq, upload_history, logs, pc, runs, topic_data, video_id, attempt,
          result, failure, collab_calls, ensure_branch, after_ensure, troubles, successes,
          add_result, files, loop, exit_status, batch>>

(***************************************************************************)
(* Topic Store: db_manager.py                                              *)
(***************************************************************************)

\* variant: a table without the UNIQUE constraint
SameKey_unconstrained(t, c) == FALSE

\* UNIQUE(category, main_topic, subtopic): row t holds the triple of candidate c
SameKey(t, c) ==
    /\ t.category = c.category
    /\ t.main_topic = c.main_topic
    /\ t.subtopic = c.subtopic

\* variant: the new row is filed in front of the rows the table holds
NewTopicRow_in_front(i, c) ==
    [id |-> 0 - i, category |-> c.category, main_topic |-> c.main_topic,
     subtopic |-> c.subtopic, status |-> "unused", used_at |-> Null]

\* the row an INSERT of candidate c creates under id i
NewTopicRow(i, c) ==
    [id |-> i, category |-> c.category, main_topic |-> c.main_topic,
     subtopic |-> c.subtopic, status |-> "unused", used_at |-> Null]

\* the for loop of add_topics: one INSERT per candidate, IntegrityError skipped
RECURSIVE add_topics_loop(_, _, _, _)
add_topics_loop(rows, seq, topics_list, added_count) ==
    IF topics_list = <<>>
    THEN [topics |-> rows, topic_seq |-> seq, added_count |-> added_count]
    ELSE LET topic == Head(topics_list) IN
         IF \E t \in rows : SameKey(t, topic)
         THEN add_topics_loop(rows, seq, Tail(topics_list), added_count)
         ELSE add_topics_loop(rows \cup {NewTopicRow(seq + 1, topic)}, seq + 1,
                              Tail(topics_list), added_count + 1)

\* variant: the skipped candidates are counted too
add_topics_counts_skipped(rows, seq, topics_list) ==
    [add_topics_loop(rows, seq, topics_list, 0) EXCEPT !.added_count = Len(topics_list)]

\* DBManager.add_topics: the new table, the new counter and the returned count
add_topics(rows, seq, topics_list) == add_topics_loop(rows, seq, topics_list, 0)

\* ORDER BY id: the rows of S as a sequence of ascending id (id is the primary
\* key: the row at position i is the one with i - 1 rows of smaller id)
OrderById(S) ==
    IF S = {} THEN <<>>
    ELSE [i \in 1..Cardinality(S) |->
            CHOOSE t \in S : Cardinality({u \in S : u.id < t.id}) = i - 1]

\* variant: ORDER BY id DESC
get_next_topic_desc(rows) ==
    LET found == OrderById({t \in rows : t.status = "unused"}) IN
    IF found # <<>>
    THEN Some([id |-> found[Len(found)].id, category |-> found[Len(found)].category,
               main_topic |-> found[Len(found)].main_topic,
               subtopic |-> found[Len(found)].subtopic])
    ELSE Null

\* DBManager.get_next_topic: SELECT ... WHERE status = 'unused' ORDER BY id LIMIT 1
get_next_topic(rows) ==
    LET found == OrderById({t \in rows : t.status = "unused"}) IN
    IF found # <<>>
    THEN Some([id |-> found[1].id, category |-> found[1].category,
               main_topic |-> found[1].main_topic, subtopic |-> found[1].subtopic])
    ELSE Null

\* variant: the UPDATE of mark_topic_used is never committed
mark_topic_used_not_committed(rows, topic_id, now) == rows

\* variant: UPDATE topics SET status = 'used', used_at = ? without the WHERE clause
mark_topic_used_every_row(rows, topic_id, now) ==
    {[t EXCEPT !.status = "used", !.used_at = Some(now)] : t \in rows}

\* DBManager.mark_topic_used: UPDATE topics SET status = 'used', used_at = ? WHERE id = ?
mark_topic_used(rows, topic_id, now) ==
    {IF t.id = topic_id THEN [t EXCEPT !.status = "used", !.used_at = Some(now)] ELSE t :
        t \in rows}

\* DBManager.get_unused_count
get_unused_count(rows) == Cardinality({t \in rows : t.status = "unused"})

\* DBManager.get_total_count
get_total_count(rows) == Cardinality(rows)

\* variant: the UPDATE changes no row
reset_all_topics_noop(rows) == rows

\* variant: the UPDATE leaves used_at alone
reset_all_topics_keeps_used_at(rows) ==
    {[t EXCEPT !.status = "unused"] : t \in rows}

\* DBManager.reset_all_topics: UPDATE topics SET status = 'unused', used_at = NULL
reset_all_topics(rows) ==
    {[t EXCEPT !.status = "unused", !.used_at = Null] : t \in rows}

\* variant: the INSERT INTO upload_history is executed twice
log_upload_twice(history, topic_id, video_title, youtube_video_id) ==
    history \o [k \in 1..2 |-> [topic_id |-> topic_id, video_title |-> video_title,
                                 youtube_video_id |-> youtube_video_id]]

\* DBManager.log_upload: INSERT INTO upload_history (youtube_video_id: <<>> or <<id>>)
log_upload(history, topic_id, video_title, youtube_video_id) ==
    Append(history, [topic_id |-> topic_id, video_title |-> video_title,
                     youtube_video_id |-> youtube_video_id])

\* DBManager.add_log: INSERT INTO logs
add_log(table, level, message) == Append(table, [level |-> level, message |-> message])

(***************************************************************************)
(* Topic Supplier: topic_manager.py                                        *)
(***************************************************************************)

\* the keys every valid topic object carries
TopicKeys == {"category", "main_topic", "subtopic"}

\* TopicManager.generate_topics on the backend's answer [ok, topics]: an exception
\* gives [], objects that lack a key are dropped
generate_topics(count, answer) ==
    IF ~answer.ok THEN <<>>
    ELSE SelectSeq(answer.topics, LAMBDA topic : TopicKeys \subseteq DOMAIN topic)

\* the for loop of generate_topics_batch from batch i on, all_topics accumulated so far
RECURSIVE generate_topics_loop(_, _, _, _, _, _)
generate_topics_loop(i, batches, total_count, batch_size, answers, all_topics) ==
    IF i > batches THEN all_topics
    ELSE LET count == Min(batch_size, total_count - Len(all_topics))
             extended == all_topics \o generate_topics(count, answers[i])
         IN IF Len(extended) >= total_count THEN extended
            ELSE generate_topics_loop(i + 1, batches, total_count, batch_size, answers, extended)

\* variant: batches = total_count // batch_size
NumBatches_floor(total_count, batch_size) == total_count \div batch_size

\* number of requests generate_topics_batch plans
NumBatches(total_count, batch_size) == (total_count + batch_size - 1) \div batch_size

\* variant: a request that raises makes the whole operation return no topic
generate_topics_batch_gives_up(total_count, batch_size, answers) ==
    LET all_topics == generate_topics_loop(1, NumBatches(total_count, batch_size),
                                           total_count, batch_size, answers, <<>>)
    IN IF \E i \in 1..NumBatches(total_count, batch_size) : ~answers[i].ok
       THEN <<>>
       ELSE SubSeq(all_topics, 1, Min(Len(all_topics), total_count))

\* TopicManager.generate_topics_batch, answers[i] the backend's answer to request i
generate_topics_batch(total_count, batch_size, answers) ==
    LET all_topics == generate_topics_loop(1, NumBatches(total_count, batch_size),
                                           total_count, batch_size, answers, <<>>)
    IN SubSeq(all_topics, 1, Min(Len(all_topics), total_count))

(***************************************************************************)
(* Initial state: the tables _init_db creates, all empty; no run started.  *)
(***************************************************************************)
Init ==
    /\ topics = {}
    /\ topic_seq = 0
    /\ upload_history = <<>>
    /\ logs = <<>>
    /\ pc = "idle"
    /\ runs = 0
    /\ topic_data = Null
    /\ video_id = Null
    /\ attempt = 0
    /\ result = "running"
    /\ failure = Null
    /\ collab_calls = <<>>
    /\ ensure_branch = "none"
    /\ after_ensure = Null
    /\ troubles = 0
    /\ successes = 0
    /\ add_result = Null
    /\ files = {}
    /\ loop = "off"
    /\ exit_status = Null
    /\ batch = Null

(***************************************************************************)
(* Publish collaborator: youtube_publisher.py                              *)
(***************************************************************************)

\* YouTubePublisher.generate_video_metadata: the title built from the topic
generate_video_metadata(topic) ==
    [title |-> <<topic.main_topic, ": ", topic.subtopic, " | Kids Learning #Shorts">>]

\* variant: range(max_retries + 1)
retry_continues_once_more(attempt_no, max_retries) == attempt_no <= max_retries

\* for attempt in range(max_retries): the loop of upload_video_with_retry goes on
retry_continues(attempt_no, max_retries) == attempt_no < max_retries

(***************************************************************************)
(* Run Orchestrator: main.py                                               *)
(***************************************************************************)

\* a row of table logs as the orchestrator writes it: the text and what it refers to
Msg(text, ref) == [text |-> text, ref |-> ref]

\* variant: _generate_and_store_topics without its try / except
generate_failed_uncaught(rows, seq, lg, F) ==
    [topics |-> rows, topic_seq |-> seq, logs |-> lg, raised |-> TRUE, ret |-> FALSE,
     faults |-> 1]

\* the except branch of _generate_and_store_topics: add_log(ERROR), return False
generate_failed(rows, seq, lg, F) ==
    IF "L101" \in F
    THEN [topics |-> rows, topic_seq |-> seq, logs |-> lg, raised |-> TRUE, ret |-> FALSE,
          faults |-> 2]
    ELSE [topics |-> rows, topic_seq |-> seq,
          logs |-> add_log(lg, "ERROR", Msg("Topic generation failed", Null)),
          raised |-> FALSE, ret |-> FALSE, faults |-> 1]

\* variant: an empty answer of the Topic Supplier raises
supply_empty_raises(rows, seq, lg) ==
    [topics |-> rows, topic_seq |-> seq, logs |-> lg, raised |-> TRUE, ret |-> FALSE,
     faults |-> 0]

\* if not topics (lines 88-90): nothing was generated, return False
supply_empty(rows, seq, lg) ==
    [topics |-> rows, topic_seq |-> seq, logs |-> lg, raised |-> FALSE, ret |-> FALSE,
     faults |-> 0]

\* KidsEduAutomation._generate_and_store_topics; answers are the backend's answers to
\* the requests, F the store calls (by line) that raise a storage error
generate_and_store_topics(rows, seq, lg, answers, F) ==
    LET generated == generate_topics_batch(TopicBatchSize, GenBatchSize, answers)
        stored == add_topics(rows, seq, generated)
    IN IF generated = <<>> THEN supply_empty(rows, seq, lg)
       ELSE IF "L93" \in F THEN generate_failed(rows, seq, lg, F)
       ELSE IF "L96" \in F THEN generate_failed(stored.topics, stored.topic_seq, lg, F)
       ELSE [topics |-> stored.topics, topic_seq |-> stored.topic_seq,
             logs |-> add_log(lg, "INFO",
                              Msg("Generated and stored new topics", Some(stored.added_count))),
             raised |-> FALSE, ret |-> TRUE, faults |-> 0]

\* what ensure_topics_available leaves: the store, whether an exception escaped,
\* how often the Topic Supplier was invoked, the branch taken and the number of
\* store calls that raised
EnsureResult(rows, seq, lg, raised, supplier_calls, branch, faults) ==
    [topics |-> rows, topic_seq |-> seq, logs |-> lg, raised |-> raised,
     supplier_calls |-> supplier_calls, branch |-> branch, faults |-> faults]

\* the call of _generate_and_store_topics from ensure_topics_available
EnsureGenerate(rows, seq, lg, answers, F, branch) ==
    LET g == generate_and_store_topics(rows, seq, lg, answers, F)
    IN EnsureResult(g.topics, g.topic_seq, g.logs, g.raised, 1, branch, g.faults)

\* variant: unused_count <= self.min_topics_threshold
at_or_below_threshold(unused_count) == unused_count <= MinTopicsThreshold

\* elif unused_count < self.min_topics_threshold (line 73)
below_threshold(unused_count) == unused_count < MinTopicsThreshold

\* KidsEduAutomation.ensure_topics_available
ensure_topics_available(rows, seq, lg, answers, F) ==
    LET unused_count == get_unused_count(rows)
        total_count == get_total_count(rows)
    IN IF "L56" \in F \/ "L57" \in F
       THEN EnsureResult(rows, seq, lg, TRUE, 0, "none", 1)
       ELSE IF unused_count = 0
       THEN IF total_count > 0
            THEN IF "L66" \in F THEN EnsureResult(rows, seq, lg, TRUE, 0, "recycle", 1)
                 ELSE IF "L67" \in F
                 THEN EnsureResult(reset_all_topics(rows), seq, lg, TRUE, 0, "recycle", 1)
                 ELSE EnsureResult(reset_all_topics(rows), seq, lg, FALSE, 0, "recycle", 0)
            ELSE EnsureGenerate(rows, seq, lg, answers, F, "initial")
       ELSE IF below_threshold(unused_count)
       THEN EnsureGenerate(rows, seq, lg, answers, F, "low")
       ELSE EnsureResult(rows, seq, lg, FALSE, 0, "enough", 0)

\* the answers of the topic-generation backend that the model explores. Request i is
\* answered in full by Block(i), BlockLen topics of its own
Block(i) == [k \in 1..BlockLen |-> Cand((i - 1) * BlockLen + k)]
Requests == 1..NumBatches(TopicBatchSize, GenBatchSize)
Raises == [ok |-> FALSE, topics |-> <<>>]
Answers(list) == [ok |-> TRUE, topics |-> list]
\* two topics, an object that lacks keys and a topic twice
SmallAnswer == <<Cand(1), [category |-> Categories[1]], Cand(2), Cand(1)>>
BackendAnswers ==
    {\* every request raises
     [i \in Requests |-> Raises],
     \* every request is answered in full
     [i \in Requests |-> Answers(Block(i))],
     \* the first request raises, the later ones are answered in full
     [i \in Requests |-> IF i = 1 THEN Raises ELSE Answers(Block(i))],
     \* the first request is answered by SmallAnswer, the later ones by no topic
     [i \in Requests |-> IF i = 1 THEN Answers(SmallAnswer) ELSE Answers(<<>>)]}

\* the store calls of the ensure step that raise: none, one, or one and the log
\* write of the handler that catches it
EnsureFaults ==
    {{}, {"L56"}, {"L57"}, {"L66"}, {"L67"}, {"L93"}, {"L96"}, {"L101"},
     {"L93", "L101"}, {"L96", "L101"}}

Failure(stage, cause) == Some([stage |-> stage, cause |-> cause])

\* the id the platform gives the video the run publishes
PublishedId == runs

StartRun ==
    /\ pc = "idle"
    /\ runs < MaxRuns
    /\ pc' = "ensure"
    /\ runs' = runs + 1
    /\ topic_data' = Null
    /\ video_id' = Null
    /\ attempt' = 0
    /\ result' = "running"
    /\ failure' = Null
    /\ collab_calls' = <<>>
    /\ ensure_branch' = "none"
    /\ after_ensure' = Null
    /\ UNCHANGED <<dbvars, troubles, successes, add_result, files, loop, exit_status, batch>>

\* Step 1, line 112
Ensure ==
    /\ pc = "ensure"
    /\ \E answers \in BackendAnswers, F \in EnsureFaults :
        LET r == ensure_topics_available(topics, topic_seq, logs, answers, F) IN
        /\ topics' = r.topics
        /\ topic_seq' = r.topic_seq
        /\ logs' = r.logs
        /\ collab_calls' = collab_calls \o [k \in 1..r.supplier_calls |-> "supplier"]
        /\ ensure_branch' = r.branch
        /\ r.faults = Cardinality(F)
        /\ troubles + r.faults <= MaxTroubles
        /\ troubles' = troubles + r.faults
        /\ IF r.raised
           THEN /\ pc' = "except"
                /\ failure' = Failure("ensure", "storage")
                /\ after_ensure' = Null
           ELSE /\ pc' = "select"
                /\ failure' = Null
                /\ after_ensure' = Some([topics |-> r.topics, upload_history |-> upload_history])
    /\ UNCHANGED <<upload_history, runs, topic_data, video_id, attempt, result, successes,
                   add_result, files, loop, exit_status, batch>>

\* n more failures happen in this step
Trouble(n) ==
    /\ troubles + n <= MaxTroubles
    /\ troubles' = troubles + n

\* variant: a selection that finds no topic waits until there is one
Select_waits ==
    /\ pc = "select"
    /\ \E fault \in BOOLEAN :
        IF fault
        THEN /\ Trouble(1)
             /\ pc' = "except"
             /\ failure' = Failure("select", "storage")
             /\ UNCHANGED <<topic_data, result>>
        ELSE IF get_next_topic(topics) = Null
        THEN UNCHANGED <<troubles, pc, result, failure, topic_data>>
        ELSE /\ Trouble(0)
             /\ pc' = "content"
             /\ topic_data' = get_next_topic(topics)
             /\ UNCHANGED <<failure, result>>
    /\ UNCHANGED <<dbvars, runs, video_id, attempt, collab_calls, ensure_branch, after_ensure,
                   successes, add_result, files, loop, exit_status, batch>>

\* Step 2, lines 115-118
Select ==
    /\ pc = "select"
    /\ \E fault \in BOOLEAN :
        IF fault
        THEN /\ Trouble(1)
             /\ pc' = "except"
             /\ failure' = Failure("select", "storage")
             /\ UNCHANGED <<topic_data, result>>
        ELSE IF get_next_topic(topics) = Null
        THEN /\ Trouble(0)
             /\ pc' = "idle"
             /\ result' = "False"
             /\ failure' = Failure("select", "no_topics")
             /\ UNCHANGED topic_data
        ELSE /\ Trouble(0)
             /\ pc' = "content"
             /\ topic_data' = get_next_topic(topics)
             /\ UNCHANGED <<failure, result>>
    /\ UNCHANGED <<dbvars, runs, video_id, attempt, collab_calls, ensure_branch, after_ensure,
                   successes, add_result, files, loop, exit_status, batch>>

\* variant: a stage handler that logs and goes on with the stage that follows
StageFailed_goes_on(stage, cause, text, ref, logfault) ==
    /\ failure' = Failure(stage, cause)
    /\ Trouble(1)
    /\ pc' = CASE stage = "content" -> "render"
              [] stage = "render" -> "auth"
              [] OTHER -> "upload"
    /\ logs' = add_log(logs, "ERROR", Msg(text, ref))
    /\ UNCHANGED result

\* a stage handler: add_log(ERROR, ...) and return False; the log write may raise
StageFailed(stage, cause, text, ref, logfault) ==
    /\ failure' = Failure(stage, cause)
    /\ IF logfault
       THEN /\ Trouble(2)
            /\ pc' = "except"
            /\ UNCHANGED <<logs, result>>
       ELSE /\ Trouble(1)
            /\ pc' = "idle"
            /\ result' = "False"
            /\ logs' = add_log(logs, "ERROR", Msg(text, ref))

\* the stage succeeded
StagePassed(next) ==
    /\ Trouble(0)
    /\ pc' = next
    /\ UNCHANGED <<logs, result, failure>>

\* Step 3, lines 124-130
Content ==
    /\ pc = "content"
    /\ collab_calls' = Append(collab_calls, "content")
    /\ \/ StagePassed("render")
       \/ \E logfault \in BOOLEAN :
            StageFailed("content", "collaborator", "Lesson generation failed for topic",
                        Some(topic_data[1].id), logfault)
    /\ UNCHANGED <<topics, topic_seq, upload_history, runs, topic_data, video_id, attempt,
                   ensure_branch, after_ensure, successes, add_result, files, loop,
                   exit_status, batch>>

\* the files VideoProducer.create_video leaves in the output directory: the slide
\* images and the audio files, and the video when it completes
create_video(fs, completes) ==
    fs \cup (IF completes THEN {"slides", "audio", "video"} ELSE {"slides", "audio"})

\* Step 4, lines 134-151
Render ==
    /\ pc = "render"
    /\ collab_calls' = Append(collab_calls, "render")
    /\ \/ /\ StagePassed("auth")
          /\ files' = create_video(files, TRUE)
       \/ \E logfault \in BOOLEAN, written \in BOOLEAN :
            /\ StageFailed("render", "collaborator", "Video creation failed for topic",
                           Some(topic_data[1].id), logfault)
            /\ files' = IF written THEN create_video(files, FALSE) ELSE files
    /\ UNCHANGED <<topics, topic_seq, upload_history, runs, topic_data, video_id, attempt,
                   ensure_branch, after_ensure, successes, add_result, loop, exit_status, batch>>

\* Step 5, lines 155-158; an exception of authenticate escapes to line 209
Authenticate ==
    /\ pc = "auth"
    /\ collab_calls' = Append(collab_calls, "auth")
    /\ \/ StagePassed("upload")
       \/ \E logfault \in BOOLEAN :
            StageFailed("auth", "collaborator", "YouTube authentication failed", Null, logfault)
       \/ /\ Trouble(1)
          /\ pc' = "except"
          /\ failure' = Failure("auth", "collaborator")
          /\ UNCHANGED <<logs, result>>
    /\ UNCHANGED <<topics, topic_seq, upload_history, runs, topic_data, video_id, attempt,
                   ensure_branch, after_ensure, successes, add_result, files, loop,
                   exit_status, batch>>

\* Step 6, one iteration of the loop of upload_video_with_retry (lines 210-222 of
\* youtube_publisher.py): upload_video returns an id (the function returns it),
\* returns None or raises (the loop goes on)
UploadAttempt ==
    /\ pc = "upload"
    /\ retry_continues(attempt, MaxRetries)
    /\ collab_calls' = IF attempt = 0 THEN Append(collab_calls, "upload") ELSE collab_calls
    /\ \E outcome \in {"id", "none", "raise"} :
        IF outcome = "id"
        THEN /\ Trouble(0)
             /\ video_id' = Some(PublishedId)
             /\ pc' = "uploaded"
             /\ UNCHANGED attempt
        ELSE /\ Trouble(IF attempt = 0 THEN 1 ELSE 0)
             /\ attempt' = attempt + 1
             /\ UNCHANGED <<video_id, pc>>
    /\ UNCHANGED <<dbvars, runs, topic_data, result, failure, ensure_branch, after_ensure,
                   successes, add_result, files, loop, exit_status, batch>>

\* Step 6, the loop of upload_video_with_retry is over: return None (lines 224-225)
UploadGivesUp ==
    /\ pc = "upload"
    /\ ~retry_continues(attempt, MaxRetries)
    /\ pc' = "uploaded"
    /\ video_id' = Null
    /\ UNCHANGED <<dbvars, runs, topic_data, attempt, result, failure, collab_calls,
                   ensure_branch, after_ensure, troubles, successes, add_result, files, loop,
                   exit_status, batch>>

\* variant: the result of the upload is not looked at
upload_failed_ignored(id) == FALSE

\* if not video_id (line 176)
upload_failed(id) == id = Null

\* Step 6, lines 176-187: without a video id log and return False; a raising log
\* write is caught at line 184, which logs again
PublishCheck ==
    /\ pc = "uploaded"
    /\ attempt' = 0
    /\ IF upload_failed(video_id)
       THEN /\ failure' = Failure("publish", "collaborator")
            /\ \E F \in {{}, {"L178"}, {"L178", "L186"}} :
                /\ Trouble(Cardinality(F))
                /\ IF "L178" \notin F
                   THEN /\ logs' = add_log(logs, "ERROR",
                                           Msg("YouTube upload failed for topic",
                                               Some(topic_data[1].id)))
                        /\ pc' = "idle"
                        /\ result' = "False"
                   ELSE IF "L186" \notin F
                   THEN /\ logs' = add_log(logs, "ERROR",
                                           Msg("YouTube upload error for topic",
                                               Some(topic_data[1].id)))
                        /\ pc' = "idle"
                        /\ result' = "False"
                   ELSE /\ pc' = "except"
                        /\ UNCHANGED <<logs, result>>
       ELSE /\ Trouble(0)
            /\ pc' = "record"
            /\ UNCHANGED <<logs, result, failure>>
    /\ UNCHANGED <<topics, topic_seq, upload_history, runs, topic_data, video_id,
                   collab_calls, ensure_branch, after_ensure, successes, add_result, files,
                   loop, exit_status, batch>>

\* Step 7, lines 190-192: three store writes, each its own transaction
Record ==
    /\ pc = "record"
    /\ \E fault \in {"none", "mark_topic_used", "log_upload", "add_log"} :
        LET marked == mark_topic_used(topics, topic_data[1].id, runs)
            logged == log_upload(upload_history, topic_data[1].id,
                                 generate_video_metadata(topic_data[1]).title, video_id)
        IN /\ topics' = IF fault = "mark_topic_used" THEN topics ELSE marked
           /\ upload_history' = IF fault \in {"mark_topic_used", "log_upload"}
                                THEN upload_history ELSE logged
           /\ IF fault = "none"
              THEN /\ Trouble(0)
                   /\ logs' = add_log(logs, "INFO",
                                      Msg("Successfully uploaded video", Some(topic_data[1].id)))
                   /\ pc' = "cleanup"
                   /\ UNCHANGED failure
              ELSE /\ Trouble(1)
                   /\ pc' = "except"
                   /\ failure' = Failure("record", "storage")
                   /\ UNCHANGED logs
    /\ UNCHANGED <<topic_seq, runs, topic_data, video_id, attempt, result, collab_calls,
                   ensure_branch, after_ensure, successes, add_result, files, loop,
                   exit_status, batch>>

\* the methods of class VideoProducer
VideoProducerMethods ==
    {"_setup_male_voice", "_find_font", "generate_audio", "create_slide_image",
     "create_video", "cleanup", "get_video_duration"}

\* attribute lookup self.video_producer.<name>: AttributeError when it is no method
has_method(name) == name \in VideoProducerMethods

\* VideoProducer.cleanup: the files that remain
cleanup(fs, keep_final_video) ==
    fs \ (IF keep_final_video THEN {"slides", "audio"} ELSE {"slides", "audio", "video"})

\* variant: a cleanup that raised makes the run return False
cleanup_verdict_escalates(raised) == IF raised THEN "False" ELSE "True"

\* lines 201-207: except Exception logs a warning; return True either way
cleanup_verdict(raised) == "True"

\* Step 8, lines 196-207: the orchestrator calls cleanup_temp_files, which class
\* VideoProducer does not have; the AttributeError is caught at line 201, nothing
\* is deleted and the run returns True
Cleanup ==
    /\ pc = "cleanup"
    /\ pc' = "idle"
    /\ LET raised == ~has_method("cleanup_temp_files") IN
        /\ files' = IF raised THEN files ELSE cleanup(files, FALSE) \ {"video"}
        /\ result' = cleanup_verdict(raised)
        /\ successes' = IF cleanup_verdict(raised) = "True" THEN successes + 1 ELSE successes
    /\ UNCHANGED <<dbvars, runs, topic_data, video_id, attempt, failure, collab_calls,
                   ensure_branch, after_ensure, troubles, add_result, loop, exit_status, batch>>

\* lines 209-212: the handler of the whole workflow writes to the Log store and
\* returns False; when that write raises, the exception leaves the function
Except ==
    /\ pc = "except"
    /\ pc' = "idle"
    /\ \E logfault \in BOOLEAN :
        IF logfault
        THEN /\ Trouble(1)
             /\ result' = "raised"
             /\ UNCHANGED logs
        ELSE /\ Trouble(0)
             /\ result' = "False"
             /\ logs' = add_log(logs, "ERROR", Msg("Workflow error", Null))
    /\ UNCHANGED <<topics, topic_seq, upload_history, runs, topic_data, video_id, attempt,
                   failure, collab_calls, ensure_branch, after_ensure, successes, add_result,
                   files, loop, exit_status, batch>>

Next ==
    \/ StartRun
    \/ Ensure
    \/ Select
    \/ Content
    \/ Render
    \/ Authenticate
    \/ UploadAttempt
    \/ UploadGivesUp
    \/ PublishCheck
    \/ Record
    \/ Cleanup
    \/ Except

Spec == Init /\ [][Next]_vars

\* the steps of a run that was started: the interpreter goes on with the next
\* statement of create_and_upload_video as long as there is one
RunStep ==
    \/ Ensure
    \/ Select
    \/ Content
    \/ Render
    \/ Authenticate
    \/ UploadAttempt
    \/ UploadGivesUp
    \/ PublishCheck
    \/ Record
    \/ Cleanup
    \/ Except

\* the runs under the assumption that every call returns or raises, so that a run
\* that was started takes its next step
SpecLive == Init /\ [][Next]_vars /\ WF_vars(RunStep)

\* the runs of a driver that starts cycle after cycle (run_continuous, lines
\* 249-254): a run that was started takes its next step, and after a run the next
\* one is started
SpecCycles == Init /\ [][Next]_vars /\ WF_vars(RunStep) /\ WF_vars(StartRun)

(***************************************************************************)
(* run_continuous: the cycles of the fixed-interval driver (SpecDriver)     *)
(***************************************************************************)

\* main dispatches to run_continuous, which enters its while loop
RunContinuous ==
    /\ loop = "off"
    /\ loop' = "looping"
    /\ UNCHANGED <<dbvars, pc, runs, topic_data, video_id, attempt, result, failure,
                   collab_calls, ensure_branch, after_ensure, troubles, successes,
                   add_result, files, exit_status, batch>>

\* a step of the cycle in flight, or after time.sleep the call that starts the next
Cycle ==
    /\ loop = "looping"
    /\ result # "raised"
    /\ Next

\* an exception that left create_and_upload_video is no KeyboardInterrupt: it
\* leaves run_continuous too
Crash ==
    /\ loop = "looping"
    /\ pc = "idle"
    /\ result = "raised"
    /\ loop' = "crashed"
    /\ UNCHANGED <<dbvars, pc, runs, topic_data, video_id, attempt, result, failure,
                   collab_calls, ensure_branch, after_ensure, troubles, successes,
                   add_result, files, exit_status, batch>>

\* Ctrl+C: KeyboardInterrupt is raised where the main thread is. except Exception
\* does not catch it, so a cycle in flight is left where it is; line 255 catches it
Interrupt ==
    /\ loop = "looping"
    /\ loop' = "stopped"
    /\ pc' = "idle"
    /\ result' = IF pc = "idle" THEN result ELSE "interrupted"
    /\ UNCHANGED <<dbvars, runs, topic_data, video_id, attempt, failure, collab_calls,
                   ensure_branch, after_ensure, troubles, successes, add_result, files,
                   exit_status, batch>>

NextDriver == RunContinuous \/ Cycle \/ Crash \/ Interrupt

SpecDriver == Init /\ [][NextDriver]_vars

(***************************************************************************)
(* main --mode once: run_once and the exit of the process (SpecOnce)       *)
(***************************************************************************)

\* the exit status of the interpreter: main calls run_once, drops what it returns
\* and returns (status 0); an exception that leaves main gives status 1
exit_code(outcome) == IF outcome = "raised" THEN 1 ELSE 0

\* run_once: the one call of create_and_upload_video, step by step
RunOnce ==
    /\ exit_status = Null
    /\ runs = 0 \/ pc # "idle"
    /\ Next

\* main returns, or the exception leaves it: the process exits
Exit ==
    /\ pc = "idle"
    /\ result # "running"
    /\ exit_status = Null
    /\ exit_status' = Some(exit_code(result))
    /\ UNCHANGED <<dbvars, pc, runs, topic_data, video_id, attempt, result, failure,
                   collab_calls, ensure_branch, after_ensure, troubles, successes,
                   add_result, files, loop, batch>>

NextOnce == RunOnce \/ Exit

SpecOnce == Init /\ [][NextOnce]_vars

(***************************************************************************)
(* generate_topics_batch, iteration by iteration (SpecBatch)               *)
(***************************************************************************)

\* what the backend may answer to one request: an exception, no topic, one topic,
\* two topics around an object that lacks keys, three topics
BatchAnswers ==
    {Raises, Answers(<<>>), Answers(<<Cand(1)>>),
     Answers(<<Cand(2), [category |-> Categories[1]], Cand(3)>>),
     Answers(<<Cand(3), Cand(2), Cand(1)>>)}

\* everything but batch
nonbatch == <<dbvars, pc, runs, topic_data, video_id, attempt, result, failure, collab_calls,
              ensure_branch, after_ensure, troubles, successes, add_result, files, loop,
              exit_status>>

\* generate_topics_batch(total_count, batch_size) is called: lines 161-162
BatchCall ==
    /\ batch = Null
    /\ \E total_count \in 0..MaxTotalCount, batch_size \in 1..MaxBatchSize :
        batch' = Some([total_count |-> total_count, batch_size |-> batch_size,
                       batches |-> NumBatches(total_count, batch_size), i |-> 0,
                       all_topics |-> <<>>, at |-> "loop",
                       \* per request: the count asked for, the number of topics
                       \* accumulated before it, the answer of the backend
                       asked |-> <<>>, before |-> <<>>, answers |-> <<>>,
                       returned |-> <<>>])
    /\ UNCHANGED nonbatch

\* one iteration of the for loop, lines 164-172
BatchRequest ==
    /\ batch # Null
    /\ batch[1].at = "loop"
    /\ batch[1].i < batch[1].batches
    /\ \E answer \in BatchAnswers :
        LET b == batch[1]
            count == Min(b.batch_size, b.total_count - Len(b.all_topics))
            extended == b.all_topics \o generate_topics(count, answer)
        IN batch' = Some([b EXCEPT !.i = b.i + 1,
                                   !.all_topics = extended,
                                   !.at = IF Len(extended) >= b.total_count
                                          THEN "return" ELSE "loop",
                                   !.asked = Append(b.asked, count),
                                   !.before = Append(b.before, Len(b.all_topics)),
                                   !.answers = Append(b.answers, answer)])
    /\ UNCHANGED nonbatch

\* the loop is over or was left by break: return all_topics[:total_count], line 174
BatchReturn ==
    /\ batch # Null
    /\ \/ batch[1].at = "return"
       \/ batch[1].at = "loop" /\ batch[1].i = batch[1].batches
    /\ LET b == batch[1] IN
        batch' = Some([b EXCEPT !.at = "done",
                                !.returned = SubSeq(b.all_topics, 1,
                                                    Min(Len(b.all_topics), b.total_count))])
    /\ UNCHANGED nonbatch

NextBatch == BatchCall \/ BatchRequest \/ BatchReturn

SpecBatch == Init /\ [][NextBatch]_vars

(***************************************************************************)
(* Direct calls of the Topic Store, in any order (specification SpecStore) *)
(***************************************************************************)
StoreCands == {Cand(i) : i \in 1..MaxStoreKeys}
CandLists == UNION {[1..n -> StoreCands] : n \in 0..MaxCandLen}
\* the clock readings datetime.now() yields in the direct calls
StoreTimes == {"t1"}

\* db.add_topics(topics_list); add_result notes the length of the list, how many of
\* its candidates were stored already, the total before and the returned count
AddTopicsCall ==
    \E topics_list \in CandLists :
        LET r == add_topics(topics, topic_seq, topics_list) IN
        /\ topics' = r.topics
        /\ topic_seq' = r.topic_seq
        /\ add_result' = Some([offered |-> Len(topics_list),
                                 known |-> Cardinality({i \in DOMAIN topics_list :
                                              \E t \in topics : SameKey(t, topics_list[i])}),
                                 total_before |-> get_total_count(topics),
                                 added |-> r.added_count])
        /\ UNCHANGED <<upload_history, logs, runvars>>

\* db.mark_topic_used(topic_id), also for an id no topic has
MarkTopicUsedCall ==
    \E topic_id \in 1..(MaxStoreKeys + 1), now \in StoreTimes :
        /\ topics' = mark_topic_used(topics, topic_id, now)
        /\ add_result' = Null
        /\ UNCHANGED <<topic_seq, upload_history, logs, runvars>>

\* db.reset_all_topics()
ResetAllTopicsCall ==
    /\ topics' = reset_all_topics(topics)
    /\ add_result' = Null
    /\ UNCHANGED <<topic_seq, upload_history, logs, runvars>>

NextStore == AddTopicsCall \/ MarkTopicUsedCall \/ ResetAllTopicsCall

SpecStore == Init /\ [][NextStore]_vars

(***************************************************************************)
(* Properties.                                                             *)
(***************************************************************************)

\* the (category, main_topic, subtopic) triple of a stored topic or a candidate
KeyOf(t) == <<t.category, t.main_topic, t.subtopic>>
UnusedRows(rows) == {t \in rows : t.status = "unused"}
UsedRows(rows) == {t \in rows : t.status = "used"}

\* the run has left the success path at stage content, render, auth or publish
C1_FailedAfterSelection ==
    /\ pc \in {"idle", "except"}
    /\ failure # Null
    /\ failure[1].stage \in {"content", "render", "auth", "publish"}

C1_StoreAsEnsureLeftIt ==
    C1_FailedAfterSelection =>
        /\ after_ensure # Null
        /\ topics = after_ensure[1].topics
        /\ upload_history = after_ensure[1].upload_history
        /\ \E t \in topics : t.id = topic_data[1].id /\ t.status = "unused"

C1_UsedOnlyWithPublishedId ==
    \A t \in topics : \A u \in topics' :
        (u.id = t.id /\ t.status = "unused" /\ u.status = "used") =>
            /\ pc = "record"
            /\ video_id # Null
            /\ t.id = topic_data[1].id

\* C1: a topic goes from unused to used only in the record stage of a run whose
\* upload returned a published-video id, and it is the topic that run selected; a
\* run that fails at content, render, auth or publish (retries exhausted included)
\* leaves the selected topic unused and leaves the topics and the upload records
\* exactly as its ensure step left them.
C1_TopicUsedOnlyByPublishedRun ==
    []C1_StoreAsEnsureLeftIt /\ [][C1_UsedOnlyWithPublishedId]_vars

\* an earlier run published; this run gave up the upload and returned False
C1_Witness ==
    /\ pc = "idle"
    /\ result = "False"
    /\ failure = Failure("publish", "collaborator")
    /\ video_id = Null
    /\ successes >= 1
    /\ upload_history # <<>>

\* C2: between runs the number of upload records equals the number of runs that
\* returned success.
C2_RecordPerSuccessfulRun ==
    pc = "idle" => Len(upload_history) = successes

C3_AttemptsBounded ==
    /\ attempt \in 0..MaxRetries
    /\ pc = "uploaded" => ((video_id = Null) <=> (attempt = MaxRetries))
    /\ pc \in {"record", "cleanup"} => video_id # Null

C3_RetrySteps ==
    \* an attempt is made only after fewer than MaxRetries failures and no success
    /\ (pc = "upload" /\ (attempt' = attempt + 1 \/ video_id' # Null)) =>
            (attempt < MaxRetries /\ video_id = Null)
    \* the call returns none only after MaxRetries failed attempts
    /\ (pc = "upload" /\ pc' = "uploaded" /\ video_id' = Null) => attempt = MaxRetries
    \* with an id the run goes on to record it; with none it fails at the publish stage
    /\ (pc = "uploaded" /\ pc' # "uploaded") =>
            IF video_id # Null
            THEN pc' = "record" /\ failure' = Null
            ELSE /\ failure' = Failure("publish", "collaborator")
                 /\ pc' \in {"idle", "except"}
                 /\ pc' = "idle" => result' = "False"
                 /\ topics' = topics
                 /\ upload_history' = upload_history
    \* the record stage that completes marks the topic used and appends the record
    /\ (pc = "record" /\ pc' = "cleanup") =>
            /\ Len(upload_history') = Len(upload_history) + 1
            /\ upload_history'[Len(upload_history')].topic_id = topic_data[1].id
            /\ upload_history'[Len(upload_history')].youtube_video_id = video_id
            /\ \E t \in topics' : t.id = topic_data[1].id /\ t.status = "used"

\* C3: the publish step, called with max_retries = MaxRetries, makes at most
\* MaxRetries upload attempts and none after the first success; a success after
\* MaxRetries - 1 failures is handed to the record stage, which marks the topic
\* used and appends the record; MaxRetries failures make the call return none and
\* the run fail at the publish stage.
C3_BoundedRetry ==
    []C3_AttemptsBounded /\ [][C3_RetrySteps]_vars

\* the last permitted attempt succeeded
C3_Witness ==
    /\ pc = "uploaded"
    /\ video_id # Null
    /\ attempt = MaxRetries - 1

C4_EmptyStoreSteps ==
    /\ (pc = "ensure" /\ topics = {} /\ topics' = {} /\ troubles' = troubles) =>
            pc' = "select"
    /\ (pc = "select" /\ topics = {} /\ troubles' = troubles) =>
            /\ pc' = "idle"
            /\ result' = "False"
            /\ failure' = Failure("select", "no_topics")
            /\ \A i \in DOMAIN collab_calls' : collab_calls'[i] = "supplier"
            /\ UNCHANGED <<topics, upload_history>>

\* C4: with an empty Topic Store and a Topic Supplier that returns no topic, and no
\* storage error, the ensure step completes without raising and the run returns
\* False at topic selection, having invoked none of content, render, auth, upload.
C4_EmptyStoreFailsAtSelection ==
    [][C4_EmptyStoreSteps]_vars

C4_Witness ==
    /\ pc = "idle"
    /\ result = "False"
    /\ failure = Failure("select", "no_topics")
    /\ ensure_branch = "initial"
    /\ collab_calls = <<"supplier">>
    /\ topics = {}

\* C5: create_and_upload_video never raises to its caller.
C5_RunNeverRaises ==
    result # "raised"

\* the ids get_next_topic returns when each returned topic is marked used
RECURSIVE C6_ConsumeOrder(_)
C6_ConsumeOrder(rows) ==
    LET next == get_next_topic(rows) IN
    IF next = Null THEN <<>>
    ELSE <<next[1].id>> \o C6_ConsumeOrder(mark_topic_used(rows, next[1].id, "t1"))

\* C6: after any sequence of add_topics, mark_topic_used and reset_all_topics,
\* get_next_topic returns none exactly when no topic is unused, else the unused
\* topic of smallest id with its key; marking each returned topic used makes the
\* calls return the unused topics in strictly ascending id, each once.
C6_NextTopicIsSmallestUnused ==
    LET unused == UnusedRows(topics)
        next == get_next_topic(topics)
        order == C6_ConsumeOrder(topics)
    IN /\ (next = Null) <=> (get_unused_count(topics) = 0)
       /\ next # Null =>
            \E t \in unused :
                /\ next[1] = [id |-> t.id, category |-> t.category,
                              main_topic |-> t.main_topic, subtopic |-> t.subtopic]
                /\ \A u \in unused : t.id <= u.id
       /\ Len(order) = Cardinality(unused)
       /\ Range(order) = {t.id : t \in unused}
       /\ \A i \in 1..(Len(order) - 1) : order[i] < order[i + 1]

\* topics 1 and 3 of four are used: the calls return topic 2, then topic 4
C6_Witness ==
    /\ get_total_count(topics) = 4
    /\ C6_ConsumeOrder(topics) = <<2, 4>>

\* C7: add_topics returns the number of topics it inserted, which is the increase
\* of the total count and the number of distinct keys of the list that were not
\* stored; the same list again returns 0 and leaves the store as it was.
C7_AddTopicsCountsInserted ==
    /\ \A topics_list \in CandLists :
        LET first == add_topics(topics, topic_seq, topics_list)
            second == add_topics(first.topics, first.topic_seq, topics_list)
            novel == {KeyOf(c) : c \in Range(topics_list)} \ {KeyOf(t) : t \in topics}
        IN /\ first.added_count = get_total_count(first.topics) - get_total_count(topics)
           /\ first.added_count = Cardinality(novel)
           /\ second.added_count = 0
           /\ second.topics = first.topics
           /\ second.topic_seq = first.topic_seq
    /\ add_result # Null =>
        /\ add_result[1].added = get_total_count(topics) - add_result[1].total_before
        /\ add_result[1].added <= add_result[1].offered - add_result[1].known

\* a list that names one unstored key twice was added to a store that held topics
C7_Witness ==
    /\ add_result # Null
    /\ add_result[1].offered = 2
    /\ add_result[1].known = 0
    /\ add_result[1].added = 1
    /\ add_result[1].total_before >= 1

\* C8: no two topics share a key; add_topics leaves every stored topic as it was
\* (id, status, used_at), also the topic whose key a candidate repeats, and stores
\* every other candidate of the same list, once, unused, under a fresh id.
C8_KeysUnique ==
    /\ \A t, u \in topics : KeyOf(t) = KeyOf(u) => t = u
    /\ \A topics_list \in CandLists :
        LET r == add_topics(topics, topic_seq, topics_list) IN
        /\ topics \subseteq r.topics
        /\ \A c \in Range(topics_list) :
                Cardinality({t \in r.topics : KeyOf(t) = KeyOf(c)}) = 1
        /\ \A t \in r.topics \ topics :
                t.status = "unused" /\ t.used_at = Null /\ t.id > topic_seq
    /\ add_result # Null => get_total_count(topics) >= add_result[1].total_before

\* a list of a stored key and an unstored one was added while a topic was used
C8_Witness ==
    /\ add_result # Null
    /\ add_result[1].known = 1
    /\ add_result[1].added = 1
    /\ UsedRows(topics) # {}

C9_RecycleStep ==
    (/\ pc = "ensure"
     /\ pc' = "select"
     /\ get_unused_count(topics) = 0
     /\ get_total_count(topics) > 0) =>
        /\ get_unused_count(topics') = get_total_count(topics)
        /\ get_total_count(topics') = get_total_count(topics)
        /\ {<<t.id, KeyOf(t)>> : t \in topics'} = {<<t.id, KeyOf(t)>> : t \in topics}
        /\ \A t \in topics' : t.status = "unused" /\ t.used_at = Null

\* C9: an ensure step that starts with n > 0 topics, none unused, and completes
\* leaves n topics, all unused, with the ids and keys they had and no used_at.
C9_RecyclingRestoresAllTopics ==
    [][C9_RecycleStep]_vars

\* both topics of the store had been published and are unused again
C9_Witness ==
    /\ pc = "select"
    /\ ensure_branch = "recycle"
    /\ get_total_count(topics) >= 2
    /\ get_unused_count(topics) = get_total_count(topics)
    /\ Len(upload_history) = get_total_count(topics)

C10_EnsureStep ==
    (pc = "ensure" /\ pc' # "ensure" /\ ensure_branch' # "none") =>
        /\ (0 < get_unused_count(topics) /\ get_unused_count(topics) < MinTopicsThreshold) =>
                collab_calls' = Append(collab_calls, "supplier")
        /\ get_unused_count(topics) >= MinTopicsThreshold =>
                /\ collab_calls' = collab_calls
                /\ UNCHANGED <<topics, topic_seq, upload_history, logs>>

\* C10: an ensure step that reads the counts invokes the Topic Supplier exactly
\* once when 0 < unused < MinTopicsThreshold, and with unused >= MinTopicsThreshold
\* (exactly MinTopicsThreshold included) does not invoke it and leaves the store
\* unchanged.
C10_LowWaterMark ==
    [][C10_EnsureStep]_vars

\* one topic was left unused and the Topic Supplier was asked for more
C10_Witness ==
    /\ pc = "select"
    /\ ensure_branch = "low"
    /\ collab_calls = <<"supplier">>
    /\ UsedRows(topics) # {}

\* C11: an ensure step that completes after starting with no unused topic and
\* fewer than MinTopicsThreshold topics in all has invoked the Topic Supplier.
C11_RecycleAlsoInvokesSupplier ==
    (/\ pc = "select"
     /\ ensure_branch = "recycle"
     /\ get_total_count(topics) < MinTopicsThreshold) =>
        \E i \in DOMAIN collab_calls : collab_calls[i] = "supplier"

C12_EnsureSteps ==
    \* ensure completes with no unused topic only from an empty store left empty
    /\ (pc = "ensure" /\ pc' = "select" /\ get_unused_count(topics') = 0) =>
            (topics = {} /\ topics' = {})
    \* with an unused topic the selection that reads the store succeeds
    /\ (pc = "select" /\ get_unused_count(topics) > 0 /\ troubles' = troubles) =>
            /\ pc' = "content"
            /\ topic_data' # Null
            /\ \E t \in UnusedRows(topics) : t.id = topic_data'[1].id

\* C12: after ensure_topics_available completes no topic is unused only if the
\* store was empty at its start and no topic was added; in every other case an
\* unused topic exists and the following selection, reading the store without a
\* storage error, selects one.
C12_BacklogNeverRunsDry ==
    [][C12_EnsureSteps]_vars

\* the run recycled the exhausted store and selected its first topic again
C12_Witness ==
    /\ pc = "content"
    /\ ensure_branch = "recycle"
    /\ topic_data # Null
    /\ topic_data[1].id = 1

C13_LowWaterSteps ==
    \* the Supplier was called with unused topics left; at most the storing raised
    /\ (/\ pc = "ensure"
        /\ 0 < get_unused_count(topics)
        /\ get_unused_count(topics) < MinTopicsThreshold
        /\ ensure_branch' = "low"
        /\ troubles' <= troubles + 1) =>
            /\ pc' = "select"
            /\ failure' = Null
            /\ UnusedRows(topics) \subseteq UnusedRows(topics')
    \* the selection that follows takes the unused topic of smallest id
    /\ (pc = "select" /\ ensure_branch = "low" /\ troubles' = troubles) =>
            /\ pc' = "content"
            /\ topic_data' # Null
            /\ \E t \in UnusedRows(topics) :
                    /\ t.id = topic_data'[1].id
                    /\ \A u \in UnusedRows(topics) : t.id <= u.id

C14_RecordingAllOrNothing ==
    (pc = "idle" /\ topic_data # Null) =>
        ((\E t \in UsedRows(topics) : t.id = topic_data[1].id)
            <=> (/\ video_id # Null
                 /\ \E i \in DOMAIN upload_history :
                        /\ upload_history[i].topic_id = topic_data[1].id
                        /\ upload_history[i].youtube_video_id = video_id))

\* C15: a run whose publish succeeded and whose record stage met a failing store
\* write returns True.
C15_RecordFailureStillSuccess ==
    (pc = "idle" /\ failure = Failure("record", "storage")) => result = "True"

\* C16: after a run that returned True no slide image, audio file or video file
\* of the run is left in the output directory.
C16_ArtifactsDeletedAfterSuccess ==
    (pc = "idle" /\ result = "True") => files = {}

C17_CleanupStep ==
    pc = "cleanup" =>
        /\ pc' = "idle"
        /\ result' = "True"
        /\ successes' = successes + 1
        /\ UNCHANGED <<topics, topic_seq, upload_history, failure>>

\* C17: once the topic is recorded after a successful publish, the cleanup stage,
\* raising or not, ends the run with True and changes neither the topics nor the
\* upload records.
C17_CleanupNeverChangesVerdict ==
    [][C17_CleanupStep]_vars

\* the cleanup call raised, the artifacts are still there, the run returned True
C17_Witness ==
    /\ pc = "idle"
    /\ result = "True"
    /\ ~has_method("cleanup_temp_files")
    /\ files = {"slides", "audio", "video"}
    /\ failure = Null
    /\ Len(upload_history) = 1

\* the texts of the ERROR entries that name a failed stage
C18_StageTexts(stage) ==
    CASE stage = "select" -> {"No topics available after ensuring availability"}
      [] stage = "content" -> {"Lesson generation failed for topic"}
      [] stage = "render" -> {"Video creation failed for topic"}
      [] stage = "auth" -> {"YouTube authentication failed"}
      [] stage = "publish" -> {"YouTube upload failed for topic",
                               "YouTube upload error for topic"}
      [] OTHER -> {}

\* C18: a run that returned False for lack of topics or because content
\* generation, render, authentication or publish failed has left an ERROR entry
\* in table logs that names the failed stage.
C18_FailedRunLogsItsStage ==
    (/\ pc = "idle"
     /\ result = "False"
     /\ failure # Null
     /\ failure[1].cause \in {"no_topics", "collaborator"}) =>
        \E i \in DOMAIN logs :
            /\ logs[i].level = "ERROR"
            /\ logs[i].message.text \in C18_StageTexts(failure[1].stage)

\* C19: the loop of the driver ends only by KeyboardInterrupt; a cycle that
\* failed never ends it.
C19_FailedCycleNeverHaltsDriver ==
    loop \in {"off", "looping", "stopped"}

\* C20: when the driver has stopped on an interrupt, the cycle that was in flight
\* has run to its end: the last run returned True or False (or none was started).
C20_InterruptOnlyBetweenCycles ==
    loop = "stopped" => result \in {"running", "True", "False"}

\* C21: in run-once mode the process exits with status 0 exactly when the single
\* run returned True.
C21_ExitStatusReflectsOutcome ==
    exit_status # Null => ((exit_status = Some(0)) <=> (result = "True"))

\* the least number n of requests of batch_size topics that covers total_count
C22_Ceil(total_count, batch_size) ==
    CHOOSE n \in 0..total_count : n * batch_size >= total_count
                                  /\ (n = 0 \/ (n - 1) * batch_size < total_count)

\* the valid topics of one answer, in the order delivered
C22_Valid(answer) ==
    IF answer.ok
    THEN SelectSeq(answer.topics,
                   LAMBDA t : {"category", "main_topic", "subtopic"} \subseteq DOMAIN t)
    ELSE <<>>

\* the valid topics of the first n answers, in order
RECURSIVE C22_Accumulated(_, _)
C22_Accumulated(answers, n) ==
    IF n = 0 THEN <<>> ELSE C22_Accumulated(answers, n - 1) \o C22_Valid(answers[n])

\* C22: generate_topics_batch issues at most ceil(total_count / batch_size) requests
\* and exactly that many unless total_count topics were accumulated earlier; it
\* issues no request once total_count is reached; each request asks for
\* min(batch_size, total_count - accumulated); it returns the accumulated valid
\* topics in order, truncated to total_count.
C22_BatchedGeneration ==
    batch # Null =>
        LET b == batch[1]
            ceil == C22_Ceil(b.total_count, b.batch_size)
            n == Len(b.asked)
            acc == C22_Accumulated(b.answers, n)
        IN /\ n <= ceil
           /\ \A k \in 1..n :
                /\ b.before[k] = Len(C22_Accumulated(b.answers, k - 1))
                /\ b.before[k] < b.total_count
                /\ b.asked[k] = Min(b.batch_size, b.total_count - b.before[k])
           /\ b.at = "done" =>
                /\ n = ceil \/ Len(acc) >= b.total_count
                /\ b.returned = SubSeq(acc, 1, Min(Len(acc), b.total_count))
                /\ b.returned = generate_topics_batch(b.total_count, b.batch_size,
                                    [k \in 1..ceil |-> IF k <= n THEN b.answers[k] ELSE Raises])

\* a call for 3 topics in batches of 2: the first request yields two valid topics,
\* the second asks for one and gets three, the result is cut to 3
C22_Witness ==
    /\ batch # Null
    /\ batch[1].at = "done"
    /\ batch[1].total_count = 3 /\ batch[1].batch_size = 2
    /\ batch[1].asked = <<2, 1>>
    /\ Len(batch[1].all_topics) = 5
    /\ Len(batch[1].returned) = 3

\* the requests whose answer holds at least one valid topic
C23_Delivering(answers) ==
    {i \in DOMAIN answers :
        answers[i].ok /\ \E k \in DOMAIN answers[i].topics :
                            {"category", "main_topic", "subtopic"} \subseteq
                                DOMAIN answers[i].topics[k]}

\* C23: a request that fails adds nothing and the later requests are still made; the
\* Topic Supplier hands the orchestrator an empty list exactly when no request
\* delivered a valid topic, and then _generate_and_store_topics returns False and
\* leaves the store as it was; when some request delivered and no store call
\* raises, it returns True.
C23_SupplyFailsOnlyWhenNothingDelivered ==
    pc = "ensure" =>
        \A answers \in BackendAnswers :
            LET generated == generate_topics_batch(TopicBatchSize, GenBatchSize, answers)
            IN /\ generated = C22_Accumulated(answers, Len(answers))
               /\ (generated = <<>>) <=> (C23_Delivering(answers) = {})
               /\ \A F \in EnsureFaults :
                    LET g == generate_and_store_topics(topics, topic_seq, logs, answers, F)
                    IN /\ C23_Delivering(answers) = {} =>
                            /\ ~g.ret /\ ~g.raised
                            /\ g.topics = topics /\ g.topic_seq = topic_seq /\ g.logs = logs
                       /\ (C23_Delivering(answers) # {} /\ F = {}) =>
                            /\ g.ret
                            /\ \A i \in C23_Delivering(answers) :
                                 \E r \in g.topics : KeyOf(r) \in
                                    {KeyOf(t) : t \in Range(C22_Valid(answers[i]))}

\* the first request failed and the three later ones filled the empty store
C23_Witness ==
    /\ pc = "select"
    /\ runs = 1
    /\ ensure_branch = "initial"
    /\ collab_calls = <<"supplier">>
    /\ get_total_count(topics) = (Cardinality(Requests) - 1) * BlockLen

\* the collaborator stages of a run, in the order of the workflow
C24_Stages == <<"content", "render", "auth", "upload">>

\* the collaborator stages the current run has invoked, the Topic Supplier left out
C24_Invoked == SelectSeq(collab_calls, LAMBDA c : c # "supplier")

\* the steps the workflow may take from one position to the next
C24_Order ==
    {<<"idle", "ensure">>, <<"ensure", "select">>, <<"select", "content">>,
     <<"content", "render">>, <<"render", "auth">>, <<"auth", "upload">>,
     <<"upload", "uploaded">>, <<"uploaded", "record">>, <<"record", "cleanup">>,
     <<"cleanup", "idle">>}
    \cup {<<p, "except">> : p \in {"ensure", "select", "content", "render", "auth",
                                  "uploaded", "record"}}
    \cup {<<p, "idle">> : p \in {"select", "content", "render", "auth", "uploaded", "except"}}

\* C24: the stages of a run happen in the order ensure, select, content, render,
\* authenticate, publish, record, cleanup, each entered only after the one before
\* succeeded: every stage is invoked at most once, render not after a failed
\* content stage, authenticate only after a successful render, upload only after
\* authenticate returned true.
C24_StagesInOrder ==
    /\ [](/\ C24_Invoked = SubSeq(C24_Stages, 1, Len(C24_Invoked))
          /\ \A i, j \in DOMAIN collab_calls :
                (i < j /\ collab_calls[j] = "supplier") => collab_calls[i] = "supplier"
          /\ pc \in {"ensure", "select", "content"} => C24_Invoked = <<>>
          /\ pc = "render" => C24_Invoked = <<"content">>
          /\ pc = "auth" => C24_Invoked = <<"content", "render">>
          /\ pc = "upload" => /\ Len(C24_Invoked) >= 3
                              /\ Len(C24_Invoked) = 3 <=> attempt = 0
          /\ pc \in {"uploaded", "record", "cleanup"} => C24_Invoked = C24_Stages
          /\ (failure # Null /\ failure[1].stage \in {"content", "render", "auth"}) =>
                /\ C24_Invoked # <<>>
                /\ C24_Invoked[Len(C24_Invoked)] = failure[1].stage
                /\ pc \in {"idle", "except"})
    /\ [][pc' # pc => <<pc, pc'>> \in C24_Order]_vars

\* a run whose authenticate step returned false: content and render were invoked
\* before it, upload never
C24_Witness ==
    /\ pc = "idle"
    /\ result = "False"
    /\ failure = Failure("auth", "collaborator")
    /\ collab_calls = <<"supplier", "content", "render", "auth">>

\* the status of every topic id of a store
C25_Statuses(rows) == {<<t.id, t.status>> : t \in rows}

\* C25: mark_topic_used on the id of a stored topic makes that topic used with the
\* timestamp of the call and leaves every other topic as it was; on an id no topic
\* has it leaves the store as it was; applied twice to an id it leaves the same
\* statuses as applied once.
C25_MarkUsedFrame ==
    \A topic_id \in 1..(MaxStoreKeys + 1) :
        LET once == mark_topic_used(topics, topic_id, "t1")
            twice == mark_topic_used(once, topic_id, "t2")
        IN /\ \A t \in topics :
                IF t.id = topic_id
                THEN [t EXCEPT !.status = "used", !.used_at = Some("t1")] \in once
                ELSE t \in once
           /\ Cardinality(once) = Cardinality(topics)
           /\ {t \in once : t.id # topic_id} = {t \in topics : t.id # topic_id}
           /\ (\A t \in topics : t.id # topic_id) => once = topics
           /\ C25_Statuses(twice) = C25_Statuses(once)

\* three stored topics of which the second was marked used, the others untouched
C25_Witness ==
    /\ get_total_count(topics) = 3
    /\ \E t \in topics : t.id = 2 /\ t.status = "used" /\ t.used_at = Some("t1")
    /\ \A t \in topics : t.id # 2 => (t.status = "unused" /\ t.used_at = Null)

\* C26: a first cycle on an empty store in which every collaborator and every store
\* call succeeds fills the store with K unused topics, one per distinct generated
\* candidate, selects and publishes the one with the lowest id, and ends with K - 1
\* unused topics, one used topic and exactly one upload record.
C26_FirstCycleEndToEnd ==
    /\ (runs = 1 /\ ensure_branch = "initial" /\ after_ensure # Null) =>
            LET filled == after_ensure[1].topics IN
            /\ \A t \in filled : t.status = "unused"
            /\ {t.id : t \in filled} = 1..Cardinality(filled)
            /\ \E answers \in BackendAnswers :
                 {KeyOf(t) : t \in filled} =
                    {KeyOf(c) : c \in Range(C22_Accumulated(answers, Len(answers)))}
            /\ after_ensure[1].upload_history = <<>>
            /\ (pc \notin {"select", "except"} /\ topic_data # Null) => topic_data[1].id = 1
    /\ (runs = 1 /\ pc = "idle" /\ result = "True" /\ troubles = 0) =>
            LET K == Cardinality(after_ensure[1].topics) IN
            /\ ensure_branch = "initial"
            /\ K >= 1
            /\ get_total_count(topics) = K
            /\ get_unused_count(topics) = K - 1
            /\ Cardinality(UsedRows(topics)) = 1
            /\ \A t \in UsedRows(topics) : t.id = 1
            /\ Len(upload_history) = 1
            /\ upload_history[1].topic_id = 1
            /\ upload_history[1].youtube_video_id = Some(PublishedId)

\* the first cycle succeeded on a store the Supplier filled with 4 blocks of topics
C26_Witness ==
    /\ runs = 1 /\ pc = "idle" /\ result = "True" /\ troubles = 0
    /\ get_total_count(topics) = Cardinality(Requests) * BlockLen
    /\ get_unused_count(topics) = Cardinality(Requests) * BlockLen - 1
    /\ Len(upload_history) = 1

\* C27: every run terminates. A run that was started ends, as a success or as a
\* failure of one of its stages; the selection step is left at once whether or not
\* there is a topic, and the publish retry loop makes at most MaxRetries attempts.
C27_EveryRunTerminates ==
    /\ (pc # "idle") ~> (/\ pc = "idle"
                         /\ result # "running"
                         /\ (result = "True" \/ failure # Null))
    /\ [][/\ pc = "select" => pc' # "select"
          /\ pc = "upload" => (pc' = "uploaded" \/ attempt' = attempt + 1)
          /\ attempt' <= MaxRetries]_vars

\* a run that found no topic at the selection step and ended as failed
C27_Witness ==
    /\ pc = "idle"
    /\ result = "False"
    /\ failure = Failure("select", "no_topics")
    /\ runs >= 1

\* C28: replenishing a store that runs low never changes which topic is selected.
\* Every row a step inserts has an id above the id of every row the store held, and
\* the topic get_next_topic returns after an ensure step that took the low-stock
\* branch is the one it returned before the step.
C28_ReplenishKeepsSelection ==
    [][/\ \A new \in topics' : (\A old \in topics : old.id # new.id) =>
                                 (\A old \in topics : new.id > old.id)
       /\ (pc = "ensure" /\ ensure_branch' = "low") =>
             /\ get_next_topic(topics) # Null
             /\ get_next_topic(topics') = get_next_topic(topics)
             /\ \A old \in topics : old \in topics']_vars

\* the second run replenished a store of 9 topics, one of them used, with a new
\* block; the next topic is still the one with id 2
C28_Witness ==
    /\ pc = "select"
    /\ runs = 2
    /\ ensure_branch = "low"
    /\ get_total_count(topics) = (Cardinality(Requests) - 1) * BlockLen + BlockLen
    /\ get_next_topic(topics) # Null
    /\ get_next_topic(topics)[1].id = 2
    /\ \E t \in topics : t.id = 1 /\ t.status = "used"

\* the status of the topic with the given id
C29_Status(rows, topic_id) == {t.status : t \in {u \in rows : u.id = topic_id}}

\* C29: no topic is published twice between two recycles. The selection step only
\* takes a topic that is unused; a run that returns success has marked its topic
\* used; and a used topic becomes unused again only in an ensure step that recycles.
C29_NoDuplicatePublish ==
    /\ [](/\ (pc \in {"content", "render", "auth", "upload", "uploaded", "record"}) =>
                C29_Status(topics, topic_data[1].id) = {"unused"}
          /\ (pc = "cleanup" \/ (pc = "idle" /\ result = "True")) =>
                C29_Status(topics, topic_data[1].id) = {"used"})
    /\ [][/\ (pc = "select" /\ pc' = "content") =>
                C29_Status(topics, topic_data'[1].id) = {"unused"}
          /\ \A t \in topics :
                (t.status = "used" /\ C29_Status(topics', t.id) # {"used"}) =>
                    (pc = "ensure" /\ ensure_branch' = "recycle"
                     /\ get_unused_count(topics) = 0)]_vars

\* the second run selected topic 2 while topic 1, published by the first run, is used
C29_Witness ==
    /\ runs = 2
    /\ pc = "content"
    /\ ensure_branch # "recycle"
    /\ topic_data[1].id = 2
    /\ C29_Status(topics, 1) = {"used"}
    /\ Len(upload_history) = 1
    /\ upload_history[1].topic_id = 1

\* the unused topics that are selected before the unused topic t
C30_Ahead(rows, t) == {u \in rows : u.status = "unused" /\ u.id < t.id}

\* the ids of the topics that were published
C30_Published == {upload_history[k].topic_id : k \in DOMAIN upload_history}

\* C30: no unused topic is starved. While every cycle succeeds, an unused topic is
\* eventually published (within the cycles of the model); whatever the Supplier adds, the number of unused topics
\* that are selected before it never grows and shrinks by one with every published
\* topic; and a recycle of an exhausted store makes every topic unused again.
C30_NoStarvation ==
    /\ \A id \in 1..MaxRuns :
          (/\ troubles = 0
           /\ pc = "idle"
           /\ \E t \in topics : /\ t.id = id
                                /\ t.status = "unused"
                                \* the model has cycles left for the topics ahead and for t
                                /\ runs + Cardinality(C30_Ahead(topics, t)) + 1 <= MaxRuns)
              ~> (troubles > 0 \/ id \in C30_Published)
    /\ [][/\ \A t \in topics :
                (t.status = "unused" /\ t \in topics') =>
                    /\ Cardinality(C30_Ahead(topics', t)) <= Cardinality(C30_Ahead(topics, t))
                    /\ (pc = "record" /\ pc' = "cleanup") =>
                          Cardinality(C30_Ahead(topics', t)) =
                              Cardinality(C30_Ahead(topics, t)) - 1
          /\ (pc = "record" /\ pc' = "cleanup") =>
                /\ C30_Ahead(topics, CHOOSE t \in topics : t.id = topic_data[1].id) = {}
                /\ topic_data[1].id \in C30_Published'
          /\ (pc = "ensure" /\ pc' = "select" /\ ensure_branch' = "recycle") =>
                /\ topics' # {}
                /\ \A t \in topics' : t.status = "unused"]_vars

\* three successful cycles published the topics 1, 2, 3 in turn although the
\* Supplier added three more topics before the third
C30_Witness ==
    /\ runs = 3 /\ pc = "idle" /\ result = "True" /\ troubles = 0
    /\ [k \in DOMAIN upload_history |-> upload_history[k].topic_id] = <<1, 2, 3>>
    /\ ensure_branch = "low"
    /\ get_total_count(topics) = Cardinality(Requests) * BlockLen

====
